---- MODULE Spec2Model ----
(***************************************************************************)
(* The request handlers of events/views.py over the Event, Tag, Category   *)
(* and Comment tables.  One action per handler method; the variable resp   *)
(* holds the response of the last request.                                 *)
(***************************************************************************)
EXTENDS Integers, Sequences, FiniteSets, TLC

VARIABLES
    events,      \* Event table: id -> row
    nextId,      \* next primary key of the Event table
    tagTable,    \* Tag table: the tag slugs that exist
    comments,    \* Comment table: the event of each comment, in insertion order
    resp         \* the last request and its response

vars == <<events, nextId, tagTable, comments, resp>>

----------------------------------------------------------------------------
(* Bounds *)

\* Rows ever inserted into the Event table.
MaxId == 2

\* Rows ever inserted into the Event table in the tag/related-events runs.
MaxTagId == 6

\* Rows ever inserted into the Comment table.
MaxComments == 1

----------------------------------------------------------------------------
(* Text: a string is a sequence of one-character strings. *)

UpperChars == <<"A", "B", "C", "D", "E", "F", "G", "H", "I", "J", "K", "L", "M",
                "N", "O", "P", "Q", "R", "S", "T", "U", "V", "W", "X", "Y", "Z">>

LowerChars == <<"a", "b", "c", "d", "e", "f", "g", "h", "i", "j", "k", "l", "m",
                "n", "o", "p", "q", "r", "s", "t", "u", "v", "w", "x", "y", "z">>

Digits == {"0", "1", "2", "3", "4", "5", "6", "7", "8", "9"}

Range(s) == {s[i] : i \in DOMAIN s}

\* str.lower() on one character.
LowerChar(c) ==
    IF \E i \in DOMAIN UpperChars : UpperChars[i] = c
    THEN LowerChars[CHOOSE i \in DOMAIN UpperChars : UpperChars[i] = c]
    ELSE c

\* str.lower()
Lower(s) == [i \in DOMAIN s |-> LowerChar(s[i])]

\* \w of the regular expressions in slugify
IsWord(c) == c \in Range(UpperChars) \cup Range(LowerChars) \cup Digits \cup {"_"}

\* [-\s] of the regular expressions in slugify
IsSep(c) == c \in {" ", "-"}

\* re.sub(r'[^\w\s-]', '', value)
RECURSIVE DropOther(_)
DropOther(s) ==
    IF s = <<>> THEN <<>>
    ELSE IF IsWord(Head(s)) \/ IsSep(Head(s))
         THEN <<Head(s)>> \o DropOther(Tail(s))
         ELSE DropOther(Tail(s))

\* re.sub(r'[-\s]+', '-', value)
RECURSIVE Hyphenate(_)
Hyphenate(s) ==
    IF s = <<>> THEN <<>>
    ELSE IF IsSep(Head(s))
         THEN IF Tail(s) # <<>> /\ IsSep(Head(Tail(s)))
              THEN Hyphenate(Tail(s))
              ELSE <<"-">> \o Hyphenate(Tail(s))
         ELSE <<Head(s)>> \o Hyphenate(Tail(s))

\* str.lstrip('-_')
RECURSIVE LStrip(_)
LStrip(s) ==
    IF s # <<>> /\ Head(s) \in {"-", "_"} THEN LStrip(Tail(s)) ELSE s

\* str.rstrip('-_')
RECURSIVE RStrip(_)
RStrip(s) ==
    IF s # <<>> /\ s[Len(s)] \in {"-", "_"}
    THEN RStrip(SubSeq(s, 1, Len(s) - 1))
    ELSE s

\* django.utils.text.slugify on ASCII text
slugify(name) == RStrip(LStrip(Hyphenate(DropOther(Lower(name)))))

\* q is a substring of s (the empty string is one of every string)
Contains(s, q) ==
    \E i \in 1..(Len(s) + 1) :
        /\ i + Len(q) - 1 <= Len(s)
        /\ SubSeq(s, i, i + Len(q) - 1) = q

\* A containment test that ignores case, as name__icontains does.
containsAnyCase(s, q) == Contains(Lower(s), Lower(q))

\* field lookup name__contains
contains(s, q) == Contains(s, q)

\* field lookup name__icontains
icontains(s, q) == Contains(Lower(s), Lower(q))

----------------------------------------------------------------------------
(* Identity: request.user *)

Users == {"u1", "u2", "root"}

\* AnonymousUser
Anonymous == "anon"

Requesters == Users \cup {Anonymous}

is_authenticated(u) == u # Anonymous

is_superuser(u) == u = "root"

----------------------------------------------------------------------------
(* Tables and managers *)

\* Category table (static reference data): the category slugs
Categories == {<<"c">>}

NoCategory == <<>>

\* Event.objects
AllEvents == DOMAIN events

\* Event.public
PublicEvents == {id \in DOMAIN events : ~events[id].make_private}

\* Event.private
PrivateEvents == {id \in DOMAIN events : events[id].make_private}

\* Event.__str__
EventStr(id) == events[id].name

\* The unique constraint of Event.slug: would saving row id with this slug violate it?
SlugTaken(id, slug) == \E o \in DOMAIN events : o # id /\ events[o].slug = slug

\* get_object_or_404 over the rows S that match: Http404 on none,
\* MultipleObjectsReturned (unhandled) on several.
get_object_or_404(S) ==
    IF S = {} THEN "not_found"
    ELSE IF Cardinality(S) > 1 THEN "error"
    ELSE "found"

\* Manager.get over the rows S that match: DoesNotExist or
\* MultipleObjectsReturned (both unhandled) unless exactly one matches.
objects_get(S) == IF Cardinality(S) = 1 THEN "found" ELSE "error"

TheOne(S) == CHOOSE id \in S : TRUE

\* The rows of get_event(slug)
get_event(slug) ==
    {id \in DOMAIN events : events[id].slug = slug /\ events[id].make_private = FALSE}

\* The rows of get_private_event(slug)
get_private_event(slug) ==
    {id \in DOMAIN events : events[id].slug = slug /\ events[id].make_private = TRUE}

\* The rows of get_object_or_404(Event, slug=slug)
get_any_event(slug) == {id \in DOMAIN events : events[id].slug = slug}

----------------------------------------------------------------------------
(* Querysets as sequences of primary keys *)

Min(a, b) == IF a <= b THEN a ELSE b

SetMin(S) == CHOOSE x \in S : \A y \in S : x <= y

\* n copies of x
RECURSIVE Repeat(_, _)
Repeat(x, n) == IF n = 0 THEN <<>> ELSE <<x>> \o Repeat(x, n - 1)

\* filter(tags__id__in=tags) over the rows S: the join with the tagged-items
\* table gives one row per tag an event shares with tags.
RECURSIVE TagJoin(_, _)
TagJoin(S, tags) ==
    IF S = {} THEN <<>>
    ELSE LET id == SetMin(S)
         IN  Repeat(id, Cardinality(events[id].tags \cap tags))
                 \o TagJoin(S \ {id}, tags)

\* QuerySet.exclude(id=x)
Exclude(q, x) == SelectSeq(q, LAMBDA id : id # x)

\* QuerySet.distinct()
RECURSIVE Distinct(_)
Distinct(q) ==
    IF q = <<>> THEN <<>>
    ELSE LET init == Distinct(SubSeq(q, 1, Len(q) - 1))
         IN  IF q[Len(q)] \in Range(init) THEN init ELSE Append(init, q[Len(q)])

\* QuerySet[:n]
Slice(q, n) == SubSeq(q, 1, Min(n, Len(q)))

\* The slice bound of related_events
RelatedLimit == 4

\* The rows S in primary-key order
RECURSIVE InOrder(_)
InOrder(S) ==
    IF S = {} THEN <<>>
    ELSE LET id == SetMin(S) IN <<id>> \o InOrder(S \ {id})

----------------------------------------------------------------------------
(* Responses *)

\* A response: status is "ok" (a rendered page or a plain HttpResponse),
\* "redirect", "login" (the redirect to the login page of LoginRequiredMixin
\* and login_required), "forbidden", "not_found", or "error" (an exception
\* that leaves the view: a server error).  found_attending is the
\* users_attending of the target as the handler found it.
Response(view, method, u, arg, status, body) ==
    [view |-> view, method |-> method, user |-> u, arg |-> arg,
     status |-> status, body |-> body,
     event |-> 0, events |-> <<>>, related |-> <<>>, form |-> "none",
     found_attending |-> {}]

\* The response to a lookup that found no single row
Failed(view, method, u, arg, found) == Response(view, method, u, arg, found, "")

----------------------------------------------------------------------------
(* CategoryDetailView *)

\* Category.objects.get(slug=slug)
CategoryLookup(slug) == objects_get({c \in Categories : c = slug})

CategoryQueryset(u, category) ==
    IF is_authenticated(u)
    THEN {id \in PublicEvents : events[id].category = category}
         \cup {id \in PrivateEvents :
                   events[id].category = category /\ events[id].user = u}
    ELSE {id \in PublicEvents : events[id].category = category}

CategoryDetailGet(u, slug) ==
    /\ resp' = IF CategoryLookup(slug) # "found"
               THEN Failed("category_detail", "GET", u, slug, CategoryLookup(slug))
               ELSE [Response("category_detail", "GET", u, slug, "ok", "category.html")
                        EXCEPT !.events = InOrder(CategoryQueryset(u, slug))]
    /\ UNCHANGED <<events, nextId, tagTable, comments>>

----------------------------------------------------------------------------
(* EventDetailView *)

\* The related events without distinct().
RelatedPublicNoDistinct(id) ==
    Slice(Exclude(TagJoin(PublicEvents, events[id].tags), id), RelatedLimit)

\* related_events of EventDetailView.get, sliced as the context slices it
RelatedPublic(id) ==
    Slice(Distinct(Exclude(TagJoin(PublicEvents, events[id].tags), id)), RelatedLimit)

EventDetailGet(u, slug) ==
    /\ resp' = LET S == get_event(slug)
                   id == TheOne(S)
               IN  IF get_object_or_404(S) # "found"
                   THEN Failed("event_detail", "GET", u, slug, get_object_or_404(S))
                   ELSE [Response("event_detail", "GET", u, slug, "ok", "event_detail.html")
                            EXCEPT !.event = id, !.related = RelatedPublic(id),
                                   !.form = "unbound"]
    /\ UNCHANGED <<events, nextId, tagTable, comments>>

\* event.users_attending.add(request.user)
AttendAdd(attending, u) == attending \cup {u}

\* A remove that removes nothing.
AttendRemoveNothing(attending, u) == attending

\* event.users_attending.remove(request.user)
AttendRemove(attending, u) == attending \ {u}

\* action is request.POST.get(str(event.id)); form is the comment form the
\* request carries: [valid, event], event being the event the payload names.
EventDetailPost(u, slug, action, form) ==
    LET S == get_event(slug)
        id == TheOne(S)
        found == get_object_or_404(S)
        R(status, body) ==
            [Response("event_detail", "POST", u, slug, status, body)
                EXCEPT !.event = id, !.found_attending = events[id].users_attending]
    IN  IF ~is_authenticated(u)
        THEN /\ resp' = Failed("event_detail", "POST", u, slug, "login")
             /\ UNCHANGED <<events, nextId, tagTable, comments>>
        ELSE IF found # "found"
        THEN /\ resp' = Failed("event_detail", "POST", u, slug, found)
             /\ UNCHANGED <<events, nextId, tagTable, comments>>
        ELSE IF action = "Add to attend-list"
        THEN /\ events' = [events EXCEPT
                              ![id].users_attending = AttendAdd(@, u)]
             /\ resp' = R("ok", "added")
             /\ UNCHANGED <<nextId, tagTable, comments>>
        ELSE IF action = "Remove from attend-list"
        THEN /\ events' = [events EXCEPT
                              ![id].users_attending = AttendRemove(@, u)]
             /\ resp' = R("ok", "removed")
             /\ UNCHANGED <<nextId, tagTable, comments>>
        ELSE IF form.valid
        THEN /\ Len(comments) < MaxComments
             /\ comments' = Append(comments, TheOne(get_event(slug)))
             /\ resp' = [R("redirect", "") EXCEPT !.form = "valid"]
             /\ UNCHANGED <<events, nextId, tagTable>>
        ELSE \* the method falls off its end and returns None, which Django
             \* turns into a ValueError
             /\ resp' = [R("error", "") EXCEPT !.form = "invalid"]
             /\ UNCHANGED <<events, nextId, tagTable, comments>>

----------------------------------------------------------------------------
(* EventTagView *)

\* Event.objects.filter(tags__slug__contains=slug): the join gives one row
\* per tag of an event whose slug contains slug.
RECURSIVE TagSlugJoin(_, _)
TagSlugJoin(S, slug) ==
    IF S = {} THEN <<>>
    ELSE LET id == SetMin(S)
         IN  Repeat(id, Cardinality({t \in events[id].tags : contains(t, slug)}))
                 \o TagSlugJoin(S \ {id}, slug)

\* The events of EventTagView.get
TagEvents(slug) == TagSlugJoin(AllEvents, slug)

EventTagGet(u, slug) ==
    /\ resp' = LET found == get_object_or_404({t \in tagTable : t = slug})
               IN  IF found # "found"
                   THEN Failed("event_tag", "GET", u, slug, found)
                   ELSE [Response("event_tag", "GET", u, slug, "ok", "event_tag.html")
                            EXCEPT !.events = TagEvents(slug)]
    /\ UNCHANGED <<events, nextId, tagTable, comments>>

----------------------------------------------------------------------------
(* PrivateEventDetailView *)

\* A check that lets every authenticated user through.
MayViewPrivateAnyone(u, id) == TRUE

\* request.user == event.user in PrivateEventDetailView.get
MayViewPrivate(u, id) == u = events[id].user

\* The rows of Event.private.get(user=request.user, name=event)
PrivateByName(u, id) ==
    {o \in PrivateEvents : events[o].user = u /\ events[o].name = EventStr(id)}

\* related_events of PrivateEventDetailView.get, sliced as the context slices it
RelatedOwned(u, id) ==
    Slice(Distinct(Exclude(
        TagJoin({o \in AllEvents : events[o].user = u /\ events[o].make_private = FALSE},
                events[id].tags), id)), RelatedLimit)

PrivateEventDetailGet(u, slug) ==
    /\ resp' =
         LET S == get_private_event(slug)
             found == get_object_or_404(S)
             first == TheOne(S)
             again == PrivateByName(u, first)
             id == TheOne(again)
         IN  IF ~is_authenticated(u)
             THEN Failed("private_event_detail", "GET", u, slug, "login")
             ELSE IF found # "found"
             THEN Failed("private_event_detail", "GET", u, slug, found)
             ELSE IF ~MayViewPrivate(u, first)
             THEN [Response("private_event_detail", "GET", u, slug, "forbidden", "")
                      EXCEPT !.event = first]
             ELSE IF objects_get(again) # "found"
             THEN Failed("private_event_detail", "GET", u, slug, objects_get(again))
             ELSE [Response("private_event_detail", "GET", u, slug, "ok",
                            "private_event_detail.html")
                      EXCEPT !.event = id, !.related = RelatedOwned(u, id)]
    /\ UNCHANGED <<events, nextId, tagTable, comments>>

----------------------------------------------------------------------------
(* AddEventView *)

\* event.slug = slugify(event.name)
NewSlug(form) == slugify(form.name)

\* The row AddEventView.post saves; form is the cleaned form:
\* [valid, name, make_private, tags, category].
NewEvent(u, form) ==
    [name |-> form.name, slug |-> NewSlug(form), make_private |-> form.make_private,
     user |-> u, tags |-> form.tags, users_attending |-> {},
     category |-> form.category]

\* cap bounds the rows ever inserted.
AddEventPost(u, form, cap) ==
    IF ~is_authenticated(u)
    THEN /\ resp' = Failed("add_event", "POST", u, form.name, "login")
         /\ UNCHANGED <<events, nextId, tagTable, comments>>
    ELSE IF ~form.valid
    THEN /\ resp' = [Response("add_event", "POST", u, form.name, "ok", "add_event.html")
                        EXCEPT !.form = "invalid"]
         /\ UNCHANGED <<events, nextId, tagTable, comments>>
    ELSE IF SlugTaken(nextId, NewSlug(form))
    THEN \* event.save() raises IntegrityError
         /\ resp' = [Response("add_event", "POST", u, form.name, "error", "")
                        EXCEPT !.form = "valid"]
         /\ UNCHANGED <<events, nextId, tagTable, comments>>
    ELSE /\ nextId <= cap
         /\ events' = [id \in DOMAIN events \cup {nextId} |->
                          IF id = nextId THEN NewEvent(u, form) ELSE events[id]]
         /\ nextId' = nextId + 1
         /\ tagTable' = tagTable \cup form.tags
         /\ resp' = [Response("add_event", "POST", u, form.name, "redirect", "")
                        EXCEPT !.event = nextId, !.form = "valid"]
         /\ UNCHANGED comments

----------------------------------------------------------------------------
(* EditEventView *)

\* A check that lets superusers edit, as the delete view lets them delete.
MayEditOrSuperuser(u, id) == is_superuser(u) \/ u = events[id].user

\* request.user == event.user in EditEventView.get and EditEventView.post
MayEdit(u, id) == u = events[id].user

EditEventGet(u, slug) ==
    /\ resp' =
         LET S == get_any_event(slug)
             found == get_object_or_404(S)
             id == TheOne(S)
         IN  IF ~is_authenticated(u)
             THEN Failed("edit_event", "GET", u, slug, "login")
             ELSE IF found # "found"
             THEN Failed("edit_event", "GET", u, slug, found)
             ELSE IF MayEdit(u, id)
             THEN [Response("edit_event", "GET", u, slug, "ok", "edit_event.html")
                      EXCEPT !.event = id, !.form = "unbound"]
             ELSE [Response("edit_event", "GET", u, slug, "forbidden", "")
                      EXCEPT !.event = id]
    /\ UNCHANGED <<events, nextId, tagTable, comments>>

\* A save that keeps the slug the row had.
EditedSlugStale(id, form) == events[id].slug

\* edit.slug = slugify(edit.name), edit being row id with the form's data
EditedSlug(id, form) == slugify(form.name)

\* The row EditEventView.post saves over row id
EditedEvent(id, form) ==
    [events[id] EXCEPT !.name = form.name, !.slug = EditedSlug(id, form),
                       !.make_private = form.make_private, !.tags = form.tags,
                       !.category = form.category]

EditEventPost(u, slug, form) ==
    LET S == get_any_event(slug)
        found == get_object_or_404(S)
        id == TheOne(S)
        R(status, body, f) ==
            [Response("edit_event", "POST", u, slug, status, body)
                EXCEPT !.event = id, !.form = f]
    IN  IF ~is_authenticated(u)
        THEN /\ resp' = Failed("edit_event", "POST", u, slug, "login")
             /\ UNCHANGED <<events, nextId, tagTable, comments>>
        ELSE IF found # "found"
        THEN /\ resp' = Failed("edit_event", "POST", u, slug, found)
             /\ UNCHANGED <<events, nextId, tagTable, comments>>
        ELSE IF ~MayEdit(u, id)
        THEN /\ resp' = R("forbidden", "", "none")
             /\ UNCHANGED <<events, nextId, tagTable, comments>>
        ELSE IF ~form.valid
        THEN /\ resp' = R("ok", "edit_event.html", "invalid")
             /\ UNCHANGED <<events, nextId, tagTable, comments>>
        ELSE IF SlugTaken(id, EditedSlug(id, form))
        THEN \* edit.save() raises IntegrityError
             /\ resp' = R("error", "", "valid")
             /\ UNCHANGED <<events, nextId, tagTable, comments>>
        ELSE /\ events' = [events EXCEPT ![id] = EditedEvent(id, form)]
             /\ tagTable' = tagTable \cup form.tags
             /\ resp' = R("redirect", "", "valid")
             /\ UNCHANGED <<nextId, comments>>

----------------------------------------------------------------------------
(* DeleteEventView *)

\* A check that lets every authenticated user delete.
MayDeleteAnyone(u, id) == TRUE

\* request.user.is_superuser or request.user == event.user
MayDelete(u, id) == is_superuser(u) \/ u = events[id].user

DeleteEventGet(u, slug) ==
    /\ resp' =
         LET S == get_any_event(slug)
             found == get_object_or_404(S)
             id == TheOne(S)
         IN  IF ~is_authenticated(u)
             THEN Failed("delete_event", "GET", u, slug, "login")
             ELSE IF found # "found"
             THEN Failed("delete_event", "GET", u, slug, found)
             ELSE IF MayDelete(u, id)
             THEN [Response("delete_event", "GET", u, slug, "ok", "delete_event.html")
                      EXCEPT !.event = id]
             ELSE [Response("delete_event", "GET", u, slug, "forbidden", "")
                      EXCEPT !.event = id]
    /\ UNCHANGED <<events, nextId, tagTable, comments>>

DeleteEventPost(u, slug) ==
    LET S == get_any_event(slug)
        found == get_object_or_404(S)
        id == TheOne(S)
    IN  IF ~is_authenticated(u)
        THEN /\ resp' = Failed("delete_event", "POST", u, slug, "login")
             /\ UNCHANGED <<events, nextId, tagTable, comments>>
        ELSE IF found # "found"
        THEN /\ resp' = Failed("delete_event", "POST", u, slug, found)
             /\ UNCHANGED <<events, nextId, tagTable, comments>>
        ELSE IF MayDelete(u, id)
        THEN \* event.delete(): the row goes, and its comments with it
             /\ events' = [o \in DOMAIN events \ {id} |-> events[o]]
             /\ comments' = SelectSeq(comments, LAMBDA e : e # id)
             /\ resp' = [Response("delete_event", "POST", u, slug, "redirect", "")
                            EXCEPT !.event = id]
             /\ UNCHANGED <<nextId, tagTable>>
        ELSE /\ resp' = [Response("delete_event", "POST", u, slug, "forbidden", "")
                            EXCEPT !.event = id]
             /\ UNCHANGED <<events, nextId, tagTable, comments>>

----------------------------------------------------------------------------
(* SearchEventView *)

\* Event.private.filter(name__contains=query, user=request.user)
SearchOwnPrivate(u, query) ==
    {id \in PrivateEvents : contains(events[id].name, query) /\ events[id].user = u}

\* Event.public.filter(name__icontains=query)
SearchPublic(query) == {id \in PublicEvents : icontains(events[id].name, query)}

\* search_results: the two querysets joined by | are one query over the
\* Event table whose condition is the disjunction of theirs.
SearchResults(u, query) ==
    IF is_authenticated(u)
    THEN InOrder(SearchOwnPrivate(u, query) \cup SearchPublic(query))
    ELSE InOrder(SearchPublic(query))

\* query is request.GET.get("search"); a missing parameter is the empty string.
SearchEventGet(u, query) ==
    /\ resp' = IF query = <<>>
               THEN Response("search", "GET", u, query, "ok", "invalid entry")
               ELSE [Response("search", "GET", u, query, "ok", "search_events.html")
                        EXCEPT !.events = SearchResults(u, query)]
    /\ UNCHANGED <<events, nextId, tagTable, comments>>

----------------------------------------------------------------------------
(* The system: an empty database, then any request *)

Init ==
    /\ events = <<>>
    /\ nextId = 1
    /\ tagTable = {}
    /\ comments = <<>>
    /\ resp = Response("none", "", Anonymous, <<>>, "none", "")

\* Event names the requests submit: "Ab" and "ab" derive the same slug "ab",
\* "a b!" derives "a-b".
Names == {<<"A", "b">>, <<"a", "b">>, <<"a", " ", "b", "!">>}

\* Slugs the requests ask for: those of the names, and one of no event.
Slugs == {slugify(n) : n \in Names} \cup {<<"z">>}

\* Category slugs the requests ask for
CategorySlugs == Categories \cup {<<"z">>}

\* Search strings
Queries == {<<>>, <<"a">>, <<"A">>, <<"b">>}

\* Event forms as submitted: every valid one, and one that fails validation
Forms ==
    [valid : {TRUE}, name : Names, make_private : BOOLEAN, tags : {{}},
     category : Categories]
    \cup {[valid |-> FALSE, name |-> <<>>, make_private |-> FALSE, tags |-> {},
           category |-> NoCategory]}

\* Users who submit events
Owners == {"u1", "u2"}

Next ==
    \/ \E u \in Requesters, slug \in CategorySlugs : CategoryDetailGet(u, slug)
    \/ \E u \in Requesters, slug \in Slugs : EventDetailGet(u, slug)
    \/ \E u \in Requesters, slug \in Slugs : PrivateEventDetailGet(u, slug)
    \/ \E u \in Owners \cup {Anonymous}, form \in Forms : AddEventPost(u, form, MaxId)
    \/ \E u \in Requesters, slug \in Slugs : EditEventGet(u, slug)
    \/ \E u \in Requesters, slug \in Slugs, form \in Forms : EditEventPost(u, slug, form)
    \/ \E u \in Requesters, slug \in Slugs : DeleteEventGet(u, slug)
    \/ \E u \in Requesters, slug \in Slugs : DeleteEventPost(u, slug)
    \/ \E u \in Requesters, query \in Queries : SearchEventGet(u, query)

Spec == Init /\ [][Next]_vars

----------------------------------------------------------------------------
(* Tags and related events: one user submits events E1, E2, ... with tags *)

DigitChars == <<"1", "2", "3", "4", "5", "6", "7", "8", "9">>

\* The name of the i-th event submitted
TagEventName(i) == <<"E", DigitChars[i]>>

\* Tag slugs: "x" is a substring of "xy"
TagX == <<"x">>

TagXY == <<"x", "y">>

\* Tag slugs the requests ask for; no tag has the slug "y"
TagSlugs == {TagX, TagXY, <<"y">>}

\* Visibility and tags of the events submitted
TagChoices ==
    {[make_private |-> FALSE, tags |-> {}],
     [make_private |-> FALSE, tags |-> {TagX}],
     [make_private |-> FALSE, tags |-> {TagX, TagXY}],
     [make_private |-> TRUE, tags |-> {TagX, TagXY}]}

TagFormOf(i, c) ==
    [valid |-> TRUE, name |-> TagEventName(i), make_private |-> c.make_private,
     tags |-> c.tags, category |-> NoCategory]

TagForm(c) == TagFormOf(nextId, c)

\* The database after u1 has submitted E1 (public, tag x) and E2 (public,
\* tags x and xy)
InitTags ==
    /\ events = <<NewEvent("u1", TagFormOf(1, [make_private |-> FALSE, tags |-> {TagX}])),
                  NewEvent("u1", TagFormOf(2, [make_private |-> FALSE,
                                               tags |-> {TagX, TagXY}]))>>
    /\ nextId = 3
    /\ tagTable = {TagX, TagXY}
    /\ comments = <<>>
    /\ resp = Response("none", "", Anonymous, <<>>, "none", "")

\* Slugs of the events E1, E2, ...
TagEventSlugs == {slugify(TagEventName(i)) : i \in 1..MaxTagId}

NextTags ==
    \/ \E c \in TagChoices :
           nextId <= MaxTagId /\ AddEventPost("u1", TagForm(c), MaxTagId)
    \/ \E slug \in TagEventSlugs : EventDetailGet(Anonymous, slug)
    \/ \E u \in {"u1", Anonymous}, slug \in TagSlugs : EventTagGet(u, slug)

SpecTags == InitTags /\ [][NextTags]_vars

----------------------------------------------------------------------------
(* Attendance and comments on the detail page *)

\* request.POST.get(str(event.id)); "" stands for a missing token
Actions == {"Add to attend-list", "Remove from attend-list", ""}

\* Comment forms as submitted
CommentForms == [valid : BOOLEAN]

PostNames == {<<"a", "b">>, <<"a", " ", "b", "!">>}

PostForms ==
    [valid : {TRUE}, name : PostNames, make_private : BOOLEAN, tags : {{}},
     category : {NoCategory}]

\* Users who post to the detail page
Posters == {"u1", "u2", Anonymous}

NextPost ==
    \/ \E form \in PostForms : AddEventPost("u1", form, MaxId)
    \/ \E u \in Posters, slug \in Slugs, action \in Actions, form \in CommentForms :
           EventDetailPost(u, slug, action, form)

SpecPost == Init /\ [][NextPost]_vars

----------------------------------------------------------------------------
(* Properties *)

NoDuplicates(q) == \A i, j \in DOMAIN q : i # j => q[i] # q[j]

\* C1: a GET of a private event's detail by an authenticated user is
\* forbidden when the user is not the owner, succeeds with the detail page
\* of that event when the user is the owner, and is not-found when no
\* private event has the slug.
C1_PrivateDetail ==
    (resp.view = "private_event_detail" /\ resp.user # Anonymous) =>
        LET S == {id \in DOMAIN events :
                     events[id].slug = resp.arg /\ events[id].make_private}
        IN  /\ S = {} => resp.status = "not_found"
            /\ \A id \in S :
                   IF resp.user = events[id].user
                   THEN /\ resp.status = "ok"
                        /\ resp.body = "private_event_detail.html"
                        /\ resp.event = id
                   ELSE resp.status = "forbidden"

\* C1 witness: an authenticated user who is not the owner asked for an
\* existing private event and was refused.
C1_Witness ==
    /\ resp.view = "private_event_detail"
    /\ resp.status = "forbidden"
    /\ resp.user \in Users
    /\ \E id \in DOMAIN events :
          /\ events[id].slug = resp.arg
          /\ events[id].make_private
          /\ events[id].user # resp.user

\* C2 (as claimed): the event list of the tag-browse page holds no private
\* event.
C2_TagBrowsePublicOnly ==
    (resp.view = "event_tag" /\ resp.status = "ok") =>
        \A i \in DOMAIN resp.events : ~events[resp.events[i]].make_private

\* C3: a delete POST on an existing event by an authenticated user who is
\* neither its owner nor a superuser is forbidden and leaves the event as it
\* was; an event leaves the table only by a delete POST of its owner or of a
\* superuser.
C3_Delete ==
    [][\A id \in DOMAIN events :
          /\ ( /\ resp'.view = "delete_event"
               /\ resp'.method = "POST"
               /\ resp'.arg = events[id].slug
               /\ resp'.user \in Users
               /\ resp'.user # events[id].user
               /\ ~is_superuser(resp'.user) )
             => ( /\ resp'.status = "forbidden"
                  /\ id \in DOMAIN events'
                  /\ events'[id] = events[id] )
          /\ id \notin DOMAIN events'
             => ( /\ resp'.view = "delete_event"
                  /\ resp'.method = "POST"
                  /\ resp'.event = id
                  /\ resp'.user \in Users
                  /\ (resp'.user = events[id].user \/ is_superuser(resp'.user)) )
      ]_vars

\* C3 witness: a user who is neither owner nor superuser has been refused
\* the deletion of an event, which is still there.
C3_Witness ==
    /\ resp.view = "delete_event"
    /\ resp.method = "POST"
    /\ resp.status = "forbidden"
    /\ resp.user \in Users
    /\ \E id \in DOMAIN events :
          events[id].slug = resp.arg /\ events[id].user # resp.user

\* C4: an edit request (GET or POST) on an existing event by an
\* authenticated user other than its owner, a superuser included, is
\* forbidden, and no edit request of anyone but the owner changes any
\* event.
C4_EditByOther ==
    [][\A id \in DOMAIN events :
          ( /\ resp'.view = "edit_event"
            /\ resp'.arg = events[id].slug
            /\ resp'.user # events[id].user )
          => ( /\ resp'.user \in Users => resp'.status = "forbidden"
               /\ events' = events )
      ]_vars

\* C4 witness: a superuser who is not the owner has posted an edit of an
\* existing event and was refused.
C4_Witness ==
    /\ resp.view = "edit_event"
    /\ resp.method = "POST"
    /\ resp.status = "forbidden"
    /\ is_superuser(resp.user)
    /\ \E id \in DOMAIN events :
          events[id].slug = resp.arg /\ events[id].user # resp.user

\* C5: the related events of the public detail page do not hold the target,
\* are at most 4, are public, are pairwise different, and each shares a tag
\* with the target.
C5_Related ==
    (resp.view = "event_detail" /\ resp.method = "GET" /\ resp.status = "ok") =>
        /\ Len(resp.related) <= 4
        /\ NoDuplicates(resp.related)
        /\ \A i \in DOMAIN resp.related :
              LET o == resp.related[i]
              IN  /\ o \in DOMAIN events
                  /\ o # resp.event
                  /\ ~events[o].make_private
                  /\ events[o].tags \cap events[resp.event].tags # {}

\* C5 witness: a detail page whose target has more than 4 public events
\* sharing a tag with it, one of them sharing two tags, and shows 4 of them.
C5_Witness ==
    /\ resp.view = "event_detail"
    /\ resp.method = "GET"
    /\ resp.status = "ok"
    /\ Len(resp.related) = 4
    /\ Cardinality({o \in DOMAIN events \ {resp.event} :
                       /\ ~events[o].make_private
                       /\ events[o].tags \cap events[resp.event].tags # {}}) > 4
    /\ \E i \in DOMAIN resp.related :
          Cardinality(events[resp.related[i]].tags \cap events[resp.event].tags) > 1

\* The step of a round trip: the last response is to an attendance add, the
\* next is to an attendance remove by the same user on the same event.
AddThenRemove ==
    /\ resp.view = "event_detail"
    /\ resp.body = "added"
    /\ resp'.view = "event_detail"
    /\ resp'.body = "removed"
    /\ resp'.user = resp.user
    /\ resp'.event = resp.event

\* C6 (as claimed): attendance add then remove by the same user on the same
\* event leaves the attendee set as the add found it, whatever that set was.
C6_RoundTripAnyPrior ==
    [][AddThenRemove =>
          events'[resp.event].users_attending = resp.found_attending]_vars

\* C6 (amended): attendance add then remove by the same user on the same
\* event leaves the attendee set the add found, without that user: the set
\* the add found when the user was not in it.
C6_RoundTrip ==
    [][AddThenRemove =>
          /\ events'[resp.event].users_attending = resp.found_attending \ {resp.user}
          /\ resp.user \notin resp.found_attending
             => events'[resp.event].users_attending = resp.found_attending
      ]_vars

\* C6 witness: a user who was on the attendee set of an event, beside
\* another user, has removed themselves and the other user is still there.
C6_Witness ==
    /\ resp.view = "event_detail"
    /\ resp.body = "removed"
    /\ resp.user \in resp.found_attending
    /\ resp.found_attending # {resp.user}
    /\ events[resp.event].users_attending = resp.found_attending \ {resp.user}

\* C7: a search with a non-empty query lists, for an anonymous caller,
\* exactly the public events whose name contains the query whatever the
\* case, and for an authenticated caller those and the caller's own private
\* events whose name contains the query as written, each event once; no
\* private event of another user is listed.
C7_Search ==
    (resp.view = "search" /\ resp.arg # <<>>) =>
        LET q == resp.arg
            public == {id \in DOMAIN events :
                          /\ ~events[id].make_private
                          /\ Contains(Lower(events[id].name), Lower(q))}
            own == {id \in DOMAIN events :
                       /\ events[id].make_private
                       /\ events[id].user = resp.user
                       /\ Contains(events[id].name, q)}
        IN  /\ resp.status = "ok"
            /\ NoDuplicates(resp.events)
            /\ Range(resp.events) = IF resp.user = Anonymous THEN public
                                                              ELSE public \cup own
            /\ \A i \in DOMAIN resp.events :
                  events[resp.events[i]].make_private
                      => events[resp.events[i]].user = resp.user

\* C7 witness: an authenticated caller's search lists an event while the
\* caller's own private event, whose name holds the query only in another
\* case, is not listed.
C7_Witness ==
    /\ resp.view = "search"
    /\ resp.user \in Users
    /\ resp.events # <<>>
    /\ \E id \in DOMAIN events :
          /\ events[id].make_private
          /\ events[id].user = resp.user
          /\ Contains(Lower(events[id].name), Lower(resp.arg))
          /\ id \notin Range(resp.events)

\* C8 (as claimed): a comment submission that fails validation gets the
\* detail page with the invalid form back as a normal response, and no
\* comment is saved.
C8_InvalidComment ==
    (resp.view = "event_detail" /\ resp.method = "POST" /\ resp.form = "invalid") =>
        /\ resp.status = "ok"
        /\ resp.body = "event_detail.html"

\* "Spring Fest" and "Spring Fest 2"
SpringFest == <<"S", "p", "r", "i", "n", "g", " ", "F", "e", "s", "t">>

SpringFest2 == SpringFest \o <<" ", "2">>

\* C9: every event's slug is the slug derived from its name, and no two
\* events have the same slug; "Spring Fest" derives "spring-fest" and
\* "Spring Fest 2" derives "spring-fest-2".
C9_Slugs ==
    /\ \A id \in DOMAIN events : events[id].slug = slugify(events[id].name)
    /\ \A id, o \in DOMAIN events : id # o => events[id].slug # events[o].slug
    /\ slugify(SpringFest) = <<"s", "p", "r", "i", "n", "g", "-", "f", "e", "s", "t">>
    /\ slugify(SpringFest2) =
           <<"s", "p", "r", "i", "n", "g", "-", "f", "e", "s", "t", "-", "2">>

\* C9 witness: a saved edit has changed the name of an event so that its
\* slug is no longer the one the request asked for.
C9_Witness ==
    /\ resp.view = "edit_event"
    /\ resp.status = "redirect"
    /\ resp.event \in DOMAIN events
    /\ events[resp.event].slug # resp.arg

\* C10 (as claimed): a request that passes the login requirement and whose
\* slug matches no record is answered not-found (a redirect answers a POST
\* that found its record and has deleted or renamed it).
C10_NotFound ==
    LET matches ==
            CASE resp.view = "category_detail" -> resp.arg \in Categories
              [] resp.view = "event_tag" -> resp.arg \in tagTable
              [] resp.view = "event_detail" ->
                    \E id \in DOMAIN events :
                        events[id].slug = resp.arg /\ ~events[id].make_private
              [] resp.view = "private_event_detail" ->
                    \E id \in DOMAIN events :
                        events[id].slug = resp.arg /\ events[id].make_private
              [] resp.view \in {"edit_event", "delete_event"} ->
                    \E id \in DOMAIN events : events[id].slug = resp.arg
              [] OTHER -> TRUE
    IN  (~matches /\ resp.status \notin {"login", "redirect"})
            => resp.status = "not_found"

====
